---- MODULE Spec2Model ----
(***************************************************************************)
(* Model of the Constructure AI "Project Brain" backend: document          *)
(* ingestion (src/backend/document_processor_simple.py and                 *)
(* src/backend/document_processor.py), the RAG pipeline                    *)
(* (src/backend/rag_pipeline.py), structured extraction                    *)
(* (src/backend/structured_extractor.py) and the HTTP handlers with the    *)
(* query cache (src/backend/main.py).                                      *)
(*                                                                         *)
(* Text is a sequence of one-character strings, so that lower(), strip(),  *)
(* slicing, substring tests and counting are computed as Python computes   *)
(* them.                                                                   *)
(***************************************************************************)
EXTENDS Integers, Sequences, FiniteSets, TLC

(***************************************************************************)
(* Bounds of the model                                                     *)
(***************************************************************************)
\* uploads handled by the in-memory DocumentProcessor in one behaviour
MaxUploads == 3
\* length of the one page text that is longer than a chunk step
LongLen == 801

(***************************************************************************)
(* Text helpers (Python str operations)                                    *)
(***************************************************************************)
\* str.isspace() characters that occur in the model's texts
Whitespace == {" ", "\n", "\t"}

UpperCase == <<"A", "B", "C", "D", "E", "F", "G", "H", "I", "J", "K", "L", "M",
               "N", "O", "P", "Q", "R", "S", "T", "U", "V", "W", "X", "Y", "Z">>
LowerCase == <<"a", "b", "c", "d", "e", "f", "g", "h", "i", "j", "k", "l", "m",
               "n", "o", "p", "q", "r", "s", "t", "u", "v", "w", "x", "y", "z">>

\* str.lower() on one character
lower_char(c) ==
    IF \E i \in 1..Len(UpperCase) : UpperCase[i] = c
    THEN LowerCase[CHOOSE i \in 1..Len(UpperCase) : UpperCase[i] = c]
    ELSE c

\* str.lower()
lower(s) == [i \in 1..Len(s) |-> lower_char(s[i])]

RECURSIVE lstrip(_)
\* str.lstrip()
lstrip(s) ==
    IF s = <<>> THEN <<>>
    ELSE IF Head(s) \in Whitespace THEN lstrip(Tail(s)) ELSE s

RECURSIVE rstrip(_)
\* str.rstrip()
rstrip(s) ==
    IF s = <<>> THEN <<>>
    ELSE IF s[Len(s)] \in Whitespace THEN rstrip(SubSeq(s, 1, Len(s) - 1)) ELSE s

\* str.strip()
strip(s) == rstrip(lstrip(s))

\* Python slice s[a:b] for 0 <= a (0-based, end exclusive, clipped to len)
Slice(s, a, b) ==
    LET hi == IF b > Len(s) THEN Len(s) ELSE b
    IN  IF a >= hi THEN <<>> ELSE SubSeq(s, a + 1, hi)

\* Python `sub in s`
Contains(s, sub) ==
    \E i \in 0..(Len(s) - Len(sub)) : Slice(s, i, i + Len(sub)) = sub

RECURSIVE CountFrom(_, _, _)
\* str.count(sub): non-overlapping occurrences scanning left to right
CountFrom(s, sub, i) ==
    IF Len(sub) = 0 THEN Len(s) + 1
    ELSE LET found == {k \in i..(Len(s) - Len(sub)) : Slice(s, k, k + Len(sub)) = sub}
         IN  IF found = {} THEN 0
             ELSE LET first == CHOOSE k \in found : \A m \in found : k <= m
                  IN  1 + CountFrom(s, sub, first + Len(sub))

count(s, sub) == CountFrom(s, sub, 0)

RECURSIVE SplitFrom(_, _, _)
\* str.split() with no argument: maximal runs of non-whitespace characters
SplitFrom(s, i, cur) ==
    IF i > Len(s) THEN (IF cur = <<>> THEN <<>> ELSE <<cur>>)
    ELSE IF s[i] \in Whitespace
         THEN (IF cur = <<>> THEN <<>> ELSE <<cur>>) \o SplitFrom(s, i + 1, <<>>)
         ELSE SplitFrom(s, i + 1, Append(cur, s[i]))

split(s) == SplitFrom(s, 1, <<>>)

\* hashlib.md5(x).hexdigest(): a fixed-length key, injective on the model's
\* inputs (collisions aside)
md5(x) == <<"md5", x>>

(***************************************************************************)
(* Page texts and uploaded files                                           *)
(***************************************************************************)
TextDoor == <<"D", "-", "1", " ", "d", "o", "o", "r">>
TextFire == <<" ", "f", "i", "r", "e", " ", "1", "h", "r", "\n">>
TextBlank == <<" ", "\n">>
\* a page longer than chunk_size - overlap, so that it yields two chunks
\* and its last character, the whole of the second chunk, occurs once
LongText == [i \in 1..LongLen |->
                IF i = LongLen THEN "1" ELSE IF i % 5 = 0 THEN " " ELSE "d"]

\* what PdfReader gives for an upload: the page texts, or a failure to read
UploadFiles ==
    { [filename |-> "a.pdf", pages |-> <<TextDoor, LongText>>, corrupt |-> FALSE],
      [filename |-> "a.pdf", pages |-> <<TextFire>>, corrupt |-> FALSE],
      [filename |-> "b.pdf", pages |-> <<TextBlank, TextFire>>, corrupt |-> FALSE],
      [filename |-> "c.pdf", pages |-> <<TextDoor>>, corrupt |-> TRUE] }

(***************************************************************************)
(* State: the in-memory document processor, and the service of main.py     *)
(***************************************************************************)
VARIABLES
    chunks,              \* self.chunks: list of chunk dicts
    documents,           \* self.documents: doc_id -> {filename, path, chunks}
    simple_metadata,     \* self.documents_metadata of the in-memory processor
    simple_metadata_file,\* documents_metadata.json under ./data/uploads
    uploads,             \* number of uploads handled so far (bounds the run)
    last_op              \* the last operation and the file it was given

simple_vars == <<chunks, documents, simple_metadata, simple_metadata_file,
                 uploads, last_op>>

VARIABLES
    collection,         \* the persistent ChromaDB collection, in insertion order
    documents_metadata, \* doc_processor.documents_metadata (in memory)
    metadata_file,      \* uploads/documents_metadata.json (on disk)
    query_cache,        \* main.query_cache: query_hash -> entry
    retrieval_cache,    \* main.retrieval_cache
    query_history,      \* main.query_history
    document_usage,     \* main.document_usage: filename -> count
    conversations,      \* rag_pipeline.conversations: id -> list of turns
    now,                \* datetime.now(), in seconds
    ticks,              \* clock steps taken (bounds the run)
    running,            \* the handler that holds the event loop inside a
                        \* generation call, with its local variables
    pipeline_calls,     \* the calls of RAGPipeline.process_query since the start
    last                \* the chat or extract request answered last, with
                        \* the path its handler took and its response

service_vars == <<collection, documents_metadata, metadata_file, query_cache,
                  retrieval_cache, query_history, document_usage, conversations,
                  now, ticks, running, pipeline_calls, last>>

VARIABLES
    call,               \* a function of the program called on its own: its
                        \* name and its arguments
    returned            \* what that call returned

fn_vars == <<call, returned>>

vars == <<simple_vars, service_vars, fn_vars>>

(***************************************************************************)
(* document_processor_simple.DocumentProcessor                             *)
(***************************************************************************)
RECURSIVE chunk_text_from_untrimmed(_, _, _, _)
\* the windows of the text as they are cut, whitespace at their ends kept
chunk_text_from_untrimmed(text, chunk_size, overlap, start) ==
    IF start < Len(text)
    THEN <<Slice(text, start, start + chunk_size)>>
         \o chunk_text_from_untrimmed(text, chunk_size, overlap,
                                      start + (chunk_size - overlap))
    ELSE <<>>

RECURSIVE chunk_text_from(_, _, _, _)
\* the while loop of _chunk_text from position `start`
chunk_text_from(text, chunk_size, overlap, start) ==
    IF start < Len(text)
    THEN <<strip(Slice(text, start, start + chunk_size))>>
         \o chunk_text_from(text, chunk_size, overlap, start + (chunk_size - overlap))
    ELSE <<>>

\* chunks that follow one another with nothing shared
chunk_text_no_overlap(text, chunk_size, overlap) ==
    chunk_text_from(text, chunk_size, 0, 0)

\* DocumentProcessor._chunk_text
chunk_text(text, chunk_size, overlap) ==
    chunk_text_from(text, chunk_size, overlap, 0)

\* the chunk dicts of one page with no test of the page's text
page_chunk_dicts_unguarded(text, doc_id, filename, page_num) ==
    LET page_chunks == chunk_text(text, 1000, 200)
    IN  [k \in 1..Len(page_chunks) |->
            [id |-> <<doc_id, "page", page_num, "chunk", k - 1>>,
             document_id |-> doc_id,
             filename |-> filename,
             page_number |-> page_num,
             chunk_index |-> k - 1,
             content |-> page_chunks[k]]]

\* the chunk dicts of one page (the inner loop of _extract_and_chunk_pdf)
page_chunk_dicts(text, doc_id, filename, page_num) ==
    IF strip(text) # <<>>
    THEN LET page_chunks == chunk_text(text, 1000, 200)
         IN  [k \in 1..Len(page_chunks) |->
                 [id |-> <<doc_id, "page", page_num, "chunk", k - 1>>,
                  document_id |-> doc_id,
                  filename |-> filename,
                  page_number |-> page_num,
                  chunk_index |-> k - 1,
                  content |-> page_chunks[k]]]
    ELSE <<>>

RECURSIVE extract_pages(_, _, _, _)
extract_pages(pages, doc_id, filename, page_num) ==
    IF page_num > Len(pages) THEN <<>>
    ELSE page_chunk_dicts(pages[page_num], doc_id, filename, page_num)
         \o extract_pages(pages, doc_id, filename, page_num + 1)

\* DocumentProcessor._extract_and_chunk_pdf: a read failure is caught and
\* printed, and the chunks collected so far (none) are returned
extract_and_chunk_pdf(file, doc_id, filename) ==
    IF file.corrupt THEN <<>>
    ELSE extract_pages(file.pages, doc_id, filename, 1)

\* dict assignment d[k] = v
DictPut(d, k, v) == [x \in DOMAIN d \cup {k} |-> IF x = k THEN v ELSE d[x]]

EmptyDict == [x \in {} |-> 0]

\* the state change of process_document: chunk list extended, dicts updated
\* and the metadata saved
process_document_effect(file) ==
    LET doc_id == md5(file.filename)
        text_chunks == extract_and_chunk_pdf(file, doc_id, file.filename)
        meta == DictPut(simple_metadata, doc_id,
                        [filename |-> file.filename,
                         chunks_count |-> Len(text_chunks)])
    IN  /\ documents' = DictPut(documents, doc_id,
                                [filename |-> file.filename, chunks |-> text_chunks])
        /\ chunks' = chunks \o text_chunks
        /\ simple_metadata' = meta
        /\ simple_metadata_file' = meta

\* DocumentProcessor.process_document (in-memory processor)
SimpleProcessDocument(file) ==
    /\ uploads < MaxUploads
    /\ uploads' = uploads + 1
    /\ process_document_effect(file)
    /\ last_op' = [op |-> "process_document", file |-> file]
    /\ UNCHANGED <<service_vars, fn_vars>>

\* process restart: DocumentProcessor.__init__ runs again
SimpleRestart ==
    /\ chunks' = <<>>
    /\ documents' = EmptyDict
    /\ simple_metadata' = simple_metadata_file
    /\ last_op' = [op |-> "restart", file |-> last_op.file]
    /\ UNCHANGED <<simple_metadata_file, uploads>>
    /\ UNCHANGED <<service_vars, fn_vars>>

\* DocumentProcessor.get_all_documents
get_all_documents ==
    { [document_id |-> d,
       filename |-> simple_metadata[d].filename,
       chunks_count |-> simple_metadata[d].chunks_count] : d \in DOMAIN simple_metadata }

SimpleInit ==
    /\ chunks = <<>>
    /\ documents = EmptyDict
    /\ simple_metadata = EmptyDict
    /\ simple_metadata_file = EmptyDict
    /\ uploads = 0
    /\ last_op = [op |-> "init", file |-> [filename |-> "", pages |-> <<>>, corrupt |-> FALSE]]

SimpleNext ==
    \/ \E file \in UploadFiles : SimpleProcessDocument(file)
    \/ SimpleRestart


(***************************************************************************)
(* Properties of the in-memory DocumentProcessor (under SpecSimple)        *)
(***************************************************************************)
ChunkIds == {chunks[i].id : i \in 1..Len(chunks)}

ChunkKey(c) == <<c.document_id, c.page_number, c.chunk_index>>

KeysUnique ==
    \A i, j \in 1..Len(chunks) :
        ChunkKey(chunks[i]) = ChunkKey(chunks[j]) => i = j

\* a process_document step for a file whose chunks are already the stored
\* chunks of its document id (the same filename with the same content)
SecondIngestion(file) ==
    /\ md5(file.filename) \in DOMAIN documents
    /\ documents[md5(file.filename)].chunks
         = extract_and_chunk_pdf(file, md5(file.filename), file.filename)
    /\ uploads' = uploads + 1
    /\ last_op' = [op |-> "process_document", file |-> file]

\* C1: ingesting the same document a second time leaves the index store
\* unchanged: the same set of chunk ids, the same number of stored chunks,
\* and no (document_id, page_number, chunk_index) key held by two chunks.
C1_IdempotentIngestion ==
    [][\A file \in UploadFiles :
          SecondIngestion(file) =>
              /\ ChunkIds' = ChunkIds
              /\ Len(chunks') = Len(chunks)
              /\ KeysUnique']_simple_vars

\* C6 (in-memory processor): over a restart the documents listed and the
\* chunks available to search stay the same.
C6_SimpleRestartKeepsChunks ==
    [][SimpleRestart => (get_all_documents' = get_all_documents /\ chunks' = chunks)]_simple_vars

(***************************************************************************)
(* The service: document_processor.DocumentProcessor (ChromaDB),           *)
(* rag_pipeline.RAGPipeline, structured_extractor.StructuredExtractor and  *)
(* the handlers of main.py, run by one asyncio event loop.                 *)
(*                                                                         *)
(* main.chat is modelled with RAGPipeline.process_query of rag_pipeline.py *)
(* (query and conversation id); the filters of a request enter only the    *)
(* cache key.  The generation client is called synchronously inside the    *)
(* coroutines, so a handler runs without interruption up to that call and  *)
(* holds the event loop from the call to its return (`running`).           *)
(* The ChromaDB collection is persistent; add skips a record whose id is   *)
(* stored, and query returns as many records as there are, up to           *)
(* n_results.                                                              *)
(***************************************************************************)
\* chat queries that reach the pipeline between two restarts
MaxQueries == 2
\* clock steps in one behaviour
MaxTicks == 2
\* main.py: the cache lifetime in seconds
CACHE_TTL_SECONDS == 3600

None == "<None>"

\* uploads to the service: pages shorter than the splitter's chunk_size
ServiceFiles ==
    { [filename |-> "a.pdf", pages |-> <<TextDoor, TextBlank, TextFire>>, corrupt |-> FALSE],
      [filename |-> "c.pdf", pages |-> <<TextDoor>>, corrupt |-> TRUE] }

\* RecursiveCharacterTextSplitter.split_text for a text no longer than
\* chunk_size (1000): the one stripped text
split_text(text) == <<strip(text)>>

\* the chunk dicts of one page (document_processor._extract_and_chunk_pdf)
chroma_page_chunks(text, doc_id, page_num) ==
    IF strip(text) = <<>> THEN <<>>
    ELSE LET page_chunks == split_text(text)
         IN  [k \in 1..Len(page_chunks) |->
                 [text |-> page_chunks[k], page |-> page_num,
                  chunk_index |-> k - 1, document_id |-> doc_id]]

RECURSIVE chroma_extract_pages(_, _, _)
chroma_extract_pages(pages, doc_id, page_num) ==
    IF page_num > Len(pages) THEN <<>>
    ELSE chroma_page_chunks(pages[page_num], doc_id, page_num)
         \o chroma_extract_pages(pages, doc_id, page_num + 1)

\* ids of the collection
CollectionIds == {collection[i].id : i \in 1..Len(collection)}

RECURSIVE collection_add(_, _)
\* chromadb Collection.add: a record whose id is already stored is skipped
collection_add(coll, records) ==
    IF records = <<>> THEN coll
    ELSE IF \E i \in 1..Len(coll) : coll[i].id = Head(records).id
         THEN collection_add(coll, Tail(records))
         ELSE collection_add(Append(coll, Head(records)), Tail(records))

\* DocumentProcessor._index_chunks: the collection after indexing
index_chunks(text_chunks, doc_id, filename) ==
    IF text_chunks = <<>> THEN collection
    ELSE collection_add(collection,
            [k \in 1..Len(text_chunks) |->
                [id |-> <<doc_id, "page", text_chunks[k].page,
                          "chunk", text_chunks[k].chunk_index>>,
                 document |-> text_chunks[k].text,
                 metadata |-> [document_id |-> doc_id,
                               filename |-> filename,
                               page |-> text_chunks[k].page,
                               chunk_index |-> text_chunks[k].chunk_index]]])

\* DocumentProcessor.list_documents
list_documents ==
    { [document_id |-> d,
       filename |-> documents_metadata[d].filename,
       chunks_count |-> documents_metadata[d].chunks_count] :
      d \in DOMAIN documents_metadata }

\* DocumentProcessor.is_initialized
is_initialized == Len(collection) > 0

\* the embedding of a text: which lower-case characters occur in it
embed(text) == {lower_char(text[i]) : i \in 1..Len(text)} \ Whitespace

\* the distance of two embeddings
distance(u, v) == Cardinality((u \ v) \cup (v \ u))

RECURSIVE sort_last_first(_, _)
\* an ascending sort that puts the later of two items with equal keys first
sort_last_first(items, keys) ==
    IF items = <<>> THEN <<>>
    ELSE LET m == CHOOSE i \in 1..Len(items) :
                    /\ \A j \in 1..Len(items) : keys[i] <= keys[j]
                    /\ \A j \in (i + 1)..Len(items) : keys[j] > keys[i]
             drop(q) == [j \in 1..(Len(q) - 1) |-> IF j < m THEN q[j] ELSE q[j + 1]]
         IN  <<items[m]>> \o sort_last_first(drop(items), drop(keys))

RECURSIVE sort_stable(_, _)
\* a stable ascending sort of `items` by the parallel sequence `keys`
sort_stable(items, keys) ==
    IF items = <<>> THEN <<>>
    ELSE LET m == CHOOSE i \in 1..Len(items) :
                    /\ \A j \in 1..Len(items) : keys[i] <= keys[j]
                    /\ \A j \in 1..(i - 1) : keys[j] > keys[i]
             drop(q) == [j \in 1..(Len(q) - 1) |-> IF j < m THEN q[j] ELSE q[j + 1]]
         IN  <<items[m]>> \o sort_stable(drop(items), drop(keys))

\* a search that always has one blank record to give
search_blank(query, n_results) ==
    <<[text |-> <<>>,
       metadata |-> [document_id |-> md5(""), filename |-> "", page |-> 0,
                     chunk_index |-> 0],
       distance |-> 0]>>

\* DocumentProcessor.search: the n_results nearest records, formatted
search(query, n_results) ==
    LET q == embed(query)
        scored == [i \in 1..Len(collection) |->
                      [text |-> collection[i].document,
                       metadata |-> collection[i].metadata,
                       distance |-> distance(q, embed(collection[i].document))]]
        ranked == sort_stable(scored, [i \in 1..Len(scored) |-> scored[i].distance])
    IN  SubSeq(ranked, 1, IF n_results < Len(ranked) THEN n_results ELSE Len(ranked))

RECURSIVE word_score(_, _)
\* the relevance score search_documents gives a chunk for the query words
word_score(words, content_lower) ==
    IF words = <<>> THEN 0
    ELSE (IF Contains(content_lower, Head(words))
          THEN count(content_lower, Head(words)) ELSE 0)
         + word_score(Tail(words), content_lower)

\* DocumentProcessor.search_documents (in-memory processor)
search_documents(query, top_k) ==
    LET words == split(lower(query))
        scored == [i \in 1..Len(chunks) |->
                      [chunk |-> chunks[i],
                       relevance_score |-> word_score(words, lower(chunks[i].content))]]
        results == SelectSeq(scored, LAMBDA r : r.relevance_score > 0)
        ranked == sort_stable(results,
                              [i \in 1..Len(results) |-> 0 - results[i].relevance_score])
    IN  SubSeq(ranked, 1, IF top_k < Len(ranked) THEN top_k ELSE Len(ranked))

\* queries of the in-memory search: a word that two pages hold once each,
\* two words of which one page holds both, and words in capitals
SearchQueries ==
    { <<"1">>, <<"d", "o", "o", "r", " ", "1">>,
      <<"F", "I", "R", "E", " ", "D", "o", "o", "r">> }

\* top_k of a search: 5 is the default
SearchTopK == {1, 2, 5}

\* DocumentProcessor.search_documents called on the chunks of the moment
SimpleSearch(query, top_k) ==
    /\ call.fn = "none"
    /\ call' = [fn |-> "search_documents", query |-> query, top_k |-> top_k,
                chunks |-> chunks]
    /\ returned' = search_documents(query, top_k)
    /\ UNCHANGED <<simple_vars, service_vars>>

(***************************************************************************)
(* main.py: the cache key and the freshness test                           *)
(***************************************************************************)
\* rank of a character in string comparison (the characters of filter keys)
char_rank(c) ==
    IF \E i \in 1..Len(LowerCase) : LowerCase[i] = c
    THEN CHOOSE i \in 1..Len(LowerCase) : LowerCase[i] = c
    ELSE 0

RECURSIVE str_less(_, _)
\* Python a < b on strings
str_less(a, b) ==
    IF b = <<>> THEN FALSE
    ELSE IF a = <<>> THEN TRUE
    ELSE IF char_rank(Head(a)) # char_rank(Head(b))
         THEN char_rank(Head(a)) < char_rank(Head(b))
         ELSE str_less(Tail(a), Tail(b))

\* the items of a dict in the order in which they were inserted
given_items(items) == items

RECURSIVE sorted_items(_)
\* the items of a dict (a sequence of <<key, value>>) in sorted key order
sorted_items(items) ==
    IF items = <<>> THEN <<>>
    ELSE LET m == CHOOSE i \in 1..Len(items) :
                    \A j \in 1..Len(items) : ~str_less(items[j][1], items[i][1])
             rest == [j \in 1..(Len(items) - 1) |->
                         IF j < m THEN items[j] ELSE items[j + 1]]
         IN  <<items[m]>> \o sorted_items(rest)

RECURSIVE dumps_items(_)
dumps_items(items) ==
    IF items = <<>> THEN <<>>
    ELSE <<"\"">> \o items[1][1] \o <<"\"", ":", " ", "\"">> \o items[1][2] \o <<"\"">>
         \o (IF Len(items) > 1 THEN <<",", " ">> ELSE <<>>)
         \o dumps_items(Tail(items))

\* json.dumps(filters, sort_keys=True) for a dict of string values
json_dumps(filters) == <<"{">> \o dumps_items(sorted_items(filters)) \o <<"}">>

\* request.filters: None, or a dict given as the sequence of its items
NoFilters == [given |-> FALSE, items |-> <<>>]

\* the string that get_query_hash hashes (`if filters:` is false for None and
\* for the empty dict)
cache_key(query, filters) ==
    IF filters.given /\ filters.items # <<>>
    THEN strip(lower(query)) \o json_dumps(filters.items)
    ELSE strip(lower(query))

\* main.get_query_hash
get_query_hash(query, filters) == md5(cache_key(query, filters))

\* datetime.isoformat() and datetime.fromisoformat()
isoformat(t) == [iso |-> t]
fromisoformat(s) == s.iso

\* a freshness test that still accepts an entry at the age of the lifetime
is_cache_valid_inclusive(timestamp) ==
    now - fromisoformat(timestamp) <= CACHE_TTL_SECONDS

\* main.is_cache_valid, read at time `now`
is_cache_valid(timestamp) ==
    LET cached_time == fromisoformat(timestamp)
        age == now - cached_time
    IN  age < CACHE_TTL_SECONDS

(***************************************************************************)
(* rag_pipeline.py: routing                                                *)
(***************************************************************************)
KwDoorSchedule == <<"d", "o", "o", "r", " ", "s", "c", "h", "e", "d", "u", "l", "e">>
KwGenerateDoorSchedule ==
    <<"g", "e", "n", "e", "r", "a", "t", "e", " ", "a", " ", "d", "o", "o",
       "r", " ", "s", "c", "h", "e", "d", "u", "l", "e">>
KwRoomSummary == <<"r", "o", "o", "m", " ", "s", "u", "m", "m", "a", "r", "y">>
KwListAllRooms == <<"l", "i", "s", "t", " ", "a", "l", "l", " ", "r", "o", "o", "m", "s">>
KwEquipmentList == <<"e", "q", "u", "i", "p", "m", "e", "n", "t", " ", "l", "i", "s", "t">>
KwMepEquipment == <<"m", "e", "p", " ", "e", "q", "u", "i", "p", "m", "e", "n", "t">>

extraction_keywords == <<KwDoorSchedule, KwGenerateDoorSchedule, KwRoomSummary,
                         KwListAllRooms, KwEquipmentList, KwMepEquipment>>

\* RAGPipeline._is_extraction_request
is_extraction_request(query) ==
    \E k \in 1..Len(extraction_keywords) : Contains(lower(query), extraction_keywords[k])

\* RAGPipeline._handle_extraction_request: the extraction type chosen
extraction_type_of(query) ==
    IF Contains(lower(query), <<"d", "o", "o", "r">>) THEN "door_schedule"
    ELSE IF Contains(lower(query), <<"r", "o", "o", "m">>) THEN "room_summary"
    ELSE "equipment_list"

(***************************************************************************)
(* structured_extractor.py                                                 *)
(***************************************************************************)
\* a map of extraction types that also knows "room_schedule"
extraction_map_wide ==
    {"door_schedule", "room_summary", "equipment_list", "room_schedule"}

\* the keys of extraction_map in StructuredExtractor.extract
extraction_map == {"door_schedule", "room_summary", "equipment_list"}

DoorQueries ==
    << <<"d", "o", "o", "r", " ", "s", "c", "h", "e", "d", "u", "l", "e", " ",
       "s", "p", "e", "c", "i", "f", "i", "c", "a", "t", "i", "o", "n", "s">>,
       <<"d", "o", "o", "r", " ", "t", "y", "p", "e", "s", " ", "f", "i", "r",
       "e", " ", "r", "a", "t", "i", "n", "g", " ", "d", "i", "m", "e", "n",
       "s", "i", "o", "n", "s">>,
       <<"d", "o", "o", "r", " ", "h", "a", "r", "d", "w", "a", "r", "e", " ",
       "r", "e", "q", "u", "i", "r", "e", "m", "e", "n", "t", "s">> >>
RoomQueries ==
    << <<"r", "o", "o", "m", " ", "s", "c", "h", "e", "d", "u", "l", "e", " ",
       "a", "r", "e", "a", " ", "f", "l", "o", "o", "r", " ", "f", "i", "n",
       "i", "s", "h">>,
       <<"r", "o", "o", "m", " ", "t", "y", "p", "e", "s", " ", "s", "p", "e",
       "c", "i", "f", "i", "c", "a", "t", "i", "o", "n", "s", " ", "c", "e",
       "i", "l", "i", "n", "g">>,
       <<"s", "p", "a", "c", "e", " ", "p", "l", "a", "n", "n", "i", "n", "g", " ", "r", "o", "o", "m", " ", "d", "i", "m", "e", "n", "s", "i", "o", "n",
       "s">> >>
EquipmentQueries ==
    << <<"m", "e", "c", "h", "a", "n", "i", "c", "a", "l", " ", "e", "q", "u",
       "i", "p", "m", "e", "n", "t", " ", "H", "V", "A", "C", " ", "s", "p",
       "e", "c", "i", "f", "i", "c", "a", "t", "i", "o", "n", "s">>,
       <<"e", "l", "e", "c", "t", "r", "i", "c", "a", "l", " ", "e", "q", "u",
       "i", "p", "m", "e", "n", "t", " ", "M", "E", "P", " ", "s", "y", "s",
       "t", "e", "m", "s">>,
       <<"p", "l", "u", "m", "b", "i", "n", "g", " ", "f", "i", "x", "t", "u",
       "r", "e", "s", " ", "e", "q", "u", "i", "p", "m", "e", "n", "t", " ",
       "s", "c", "h", "e", "d", "u", "l", "e">> >>

\* the retrieval queries of _extract_door_schedule, _extract_room_summary and
\* _extract_equipment_list
extraction_queries(extraction_type) ==
    CASE extraction_type = "door_schedule" -> DoorQueries
      [] extraction_type = "room_summary" -> RoomQueries
      [] OTHER -> EquipmentQueries

RECURSIVE search_all(_)
\* all_docs: the results of the queries, concatenated
search_all(queries) ==
    IF queries = <<>> THEN <<>>
    ELSE search(Head(queries), 10) \o search_all(Tail(queries))

\* {doc['text']: doc for doc in all_docs}.values(): one doc per text, in
\* the order in which the texts first appear, each the last doc of its text
unique_by_text(all_docs) ==
    LET firsts == { i \in 1..Len(all_docs) :
                      \A j \in 1..(i - 1) : all_docs[j].text # all_docs[i].text }
        lastOf(i) == CHOOSE j \in 1..Len(all_docs) :
                        /\ all_docs[j].text = all_docs[i].text
                        /\ \A k \in (j + 1)..Len(all_docs) :
                              all_docs[k].text # all_docs[i].text
        nth(n) == CHOOSE i \in firsts : Cardinality({j \in firsts : j < i}) = n - 1
    IN  [n \in 1..Cardinality(firsts) |-> all_docs[lastOf(nth(n))]]

\* StructuredExtractor._build_extraction_context: the docs put into the prompt
build_extraction_context(docs) == Slice(docs, 0, 15)

\* the texts the generation service returns to an extraction call: sequences
\* of tokens, "D1" and "D2" standing for the JSON text of one record each
RespEmptyArray == <<"[", "]">>
RespOneRecord == <<"[", "D1", "]">>
RespDoorsObject == <<"{", "\"doors\"", ":", "[", "D1", ",", "D2", "]", "}">>
RespOtherObject == <<"{", "\"count\"", ":", "7", "}">>
RespNumber == <<"7">>
RespProseArray == <<"Here", "[", "D1", "]", "done">>
RespProseBroken == <<"Here", "[", "oops", "]">>
RespProse == <<"none", "found">>
RespScheduleObject == <<"{", "\"schedule\"", ":", "[", "D1", "]", "}">>

\* json.loads on the texts above (and on the substrings the fallback cuts
\* out of them); any other text is a JSONDecodeError
JsonTable ==
    { [text |-> RespEmptyArray, type |-> "array", items |-> <<>>, key |-> ""],
      [text |-> RespOneRecord, type |-> "array", items |-> <<"D1">>, key |-> ""],
      [text |-> <<"[", "D1", ",", "D2", "]">>, type |-> "array",
       items |-> <<"D1", "D2">>, key |-> ""],
      [text |-> RespDoorsObject, type |-> "object", items |-> <<"D1", "D2">>,
       key |-> "doors"],
      [text |-> RespOtherObject, type |-> "object", items |-> <<>>, key |-> "count"],
      [text |-> RespScheduleObject, type |-> "object", items |-> <<"D1">>,
       key |-> "schedule"],
      [text |-> RespNumber, type |-> "number", items |-> <<>>, key |-> ""] }

json_valid(text) == \E v \in JsonTable : v.text = text
json_loads(text) == CHOOSE v \in JsonTable : v.text = text

\* re.search(r'\[.*\]', text, re.DOTALL): from the first "[" to the last "]"
regex_array(text) ==
    LET opens == {i \in 1..Len(text) : text[i] = "["}
        first == CHOOSE i \in opens : \A j \in opens : i <= j
        closes == {i \in 1..Len(text) : text[i] = "]" /\ opens # {} /\ i > first}
        final == CHOOSE i \in closes : \A j \in closes : j <= i
    IN  IF opens = {} \/ closes = {} THEN [found |-> FALSE, text |-> <<>>]
        ELSE [found |-> TRUE, text |-> SubSeq(text, first, final)]

known_keys == {"data", "items", "results", "doors", "rooms", "equipment"}

\* a parse of the whole reply and nothing else
extract_with_gpt_whole_reply(outcome) ==
    IF outcome.raised THEN <<>>
    ELSE IF json_valid(outcome.text)
    THEN LET data == json_loads(outcome.text)
         IN  IF data.type = "array" THEN data.items
             ELSE IF data.type = "object" /\ data.key \in known_keys THEN data.items
             ELSE <<>>
    ELSE <<>>

\* StructuredExtractor._extract_with_gpt, given what the generation call did:
\* [raised |-> TRUE] or the text it returned
extract_with_gpt(outcome) ==
    IF outcome.raised THEN <<>>
    ELSE IF json_valid(outcome.text)
    THEN LET data == json_loads(outcome.text)
         IN  IF data.type = "array" THEN data.items
             ELSE IF data.type = "object" /\ data.key \in known_keys THEN data.items
             ELSE <<>>
    ELSE LET json_match == regex_array(outcome.text)
         IN  IF json_match.found /\ json_valid(json_match.text)
             THEN json_loads(json_match.text).items
             ELSE <<>>

RECURSIVE dedupe_sources(_, _)
\* the loop of _extract_sources / _format_sources: the first doc of every
\* (filename, page)
dedupe_sources(docs, seen) ==
    IF docs = <<>> THEN <<>>
    ELSE LET source_key == Head(docs).metadata.filename \o "_"
                             \o ToString(Head(docs).metadata.page)
         IN  IF source_key \in seen THEN dedupe_sources(Tail(docs), seen)
             ELSE <<Head(docs)>> \o dedupe_sources(Tail(docs), seen \cup {source_key})

\* the filename and page of every doc, with no test of `seen` and no limit
extract_sources_all(docs) ==
    [i \in 1..Len(docs) |->
        [filename |-> docs[i].metadata.filename, page |-> docs[i].metadata.page]]

\* StructuredExtractor._extract_sources
extract_sources(docs) ==
    LET firsts == dedupe_sources(docs, {})
        sources == [i \in 1..Len(firsts) |->
                       [filename |-> firsts[i].metadata.filename,
                        page |-> firsts[i].metadata.page]]
    IN  Slice(sources, 0, 10)

\* sources that name the page after the page of the doc
format_sources_next_page(retrieved_docs) ==
    LET firsts == dedupe_sources(retrieved_docs, {})
    IN  [i \in 1..Len(firsts) |->
            [filename |-> firsts[i].metadata.filename,
             page |-> firsts[i].metadata.page + 1,
             text_preview |-> firsts[i].text]]

\* RAGPipeline._format_sources
format_sources(retrieved_docs) ==
    LET firsts == dedupe_sources(retrieved_docs, {})
    IN  [i \in 1..Len(firsts) |->
            [filename |-> firsts[i].metadata.filename,
             page |-> firsts[i].metadata.page,
             text_preview |->
                 IF Len(firsts[i].text) > 200
                 THEN Slice(firsts[i].text, 0, 200) \o <<".", ".", ".">>
                 ELSE firsts[i].text]]

\* RAGPipeline._format_extraction_as_text
format_extraction_as_text(data, extraction_type) ==
    IF data = <<>>
    THEN [text |-> "No data found in the documents.", about |-> extraction_type,
          items |-> <<>>]
    ELSE [text |-> "I found:", about |-> extraction_type, items |-> data]

\* an answer that is a plain string
Text(str) == [text |-> str, about |-> "", items |-> <<>>]

NoMatchAnswer ==
    Text("I couldn't find any relevant information in the documents. "
         \o "Please make sure documents have been uploaded.")

\* the text of the reply of the generation service to a question, or its failure
GenerationAnswers == {"A1", "A2"}
ChatOutcomes ==
    {[raised |-> FALSE, text |-> a] : a \in GenerationAnswers}
    \cup {[raised |-> TRUE, text |-> "timeout"]}
ExtractionOutcomes ==
    {[raised |-> FALSE, text |-> t] :
        t \in {RespOneRecord, RespProseBroken}}
    \cup {[raised |-> TRUE, text |-> <<"timeout">>]}

\* the body of _generate_answer around the call: the reply, or the exception
\* turned into an answer string
generate_answer(outcome) ==
    IF outcome.raised THEN Text("Error generating answer: " \o outcome.text)
    ELSE Text(outcome.text)

(***************************************************************************)
(* Requests and the event loop                                             *)
(***************************************************************************)
QueryFire == <<"F", "i", "r", "e">>
QueryFireSpace == <<"f", "i", "r", "e", " ">>
QueryDoorSchedule == <<"D", "o", "o", "r", " ", "S", "c", "h", "e", "d", "u", "l", "e">>

ChatQueries == {QueryFire, QueryFireSpace, QueryDoorSchedule}

Request(kind, message, conversation_id, filters, extraction_type) ==
    [kind |-> kind, message |-> message,
     conversation_id |-> conversation_id, filters |-> filters,
     extraction_type |-> extraction_type]

\* the chat and extract requests a client can send in the current state:
\* every query without a conversation id, and one of them also with an id
\* made up by the caller ("c1") or with one the service returned earlier
RequestInputs ==
    {Request("chat", QueryFire, c, NoFilters, "") :
        c \in {None, "c1"} \cup DOMAIN conversations}
    \cup {Request("chat", q, None, NoFilters, "") : q \in ChatQueries}
    \cup {Request("extract", <<>>, None, NoFilters, t) :
            t \in {"door_schedule", "room_schedule"}}

NoRequest == [kind |-> "none", message |-> <<>>, conversation_id |-> None,
              filters |-> NoFilters, extraction_type |-> ""]

NoRunning ==
    [active |-> FALSE, req |-> NoRequest, path |-> "none", conversation_id |-> None,
     docs |-> <<>>, context |-> <<>>, history |-> <<>>, extraction_type |-> ""]

NoLast == [req |-> NoRequest, path |-> "none", resp |-> [status |-> 0]]

\* str(uuid.uuid4()): an identifier no stored conversation has
Uuid == "uuid-" \o ToString(Cardinality(DOMAIN conversations) + 1)

\* the seconds by which the clock advances at its k-th step: to one second
\* before the cache lifetime, then by that second, and so on
tick_step(k) == IF k % 2 = 1 THEN CACHE_TTL_SECONDS - 1 ELSE 1

\* time passes, also while a generation call is in progress
Tick ==
    /\ ticks < MaxTicks
    /\ ticks' = ticks + 1
    /\ now' = now + tick_step(ticks + 1)
    /\ UNCHANGED <<collection, documents_metadata, metadata_file, query_cache,
                   retrieval_cache, query_history, document_usage, conversations,
                   running, pipeline_calls, last>>
    /\ UNCHANGED <<simple_vars, fn_vars>>

\* ChatResponse(**result)
ChatResponse(result) ==
    [status |-> 200, answer |-> result.answer, sources |-> result.sources,
     conversation_id |-> result.conversation_id, confidence |-> None]

\* HTTPException(status_code=500, ...)
ServerError(detail) == [status |-> 500, detail |-> detail]

\* an entry that keeps the sources of an entry stored before it
cache_entry_kept_sources(result) ==
    [answer |-> result.answer,
     sources |-> IF DOMAIN query_cache = {} THEN result.sources
                 ELSE query_cache[CHOOSE h \in DOMAIN query_cache : TRUE].sources,
     confidence |-> None,
     structured_data |-> result.structured_data, timestamp |-> isoformat(now)]

\* the entry main.chat stores for a result at the current time
cache_entry(result) ==
    [answer |-> result.answer, sources |-> result.sources, confidence |-> None,
     structured_data |-> result.structured_data, timestamp |-> isoformat(now)]

RECURSIVE count_usage(_, _)
\* document_usage[source["filename"]] += 1 for every source
count_usage(usage, sources) ==
    IF sources = <<>> THEN usage
    ELSE count_usage(
            DictPut(usage, Head(sources).filename,
                    (IF Head(sources).filename \in DOMAIN usage
                     THEN usage[Head(sources).filename] ELSE 0) + 1),
            Tail(sources))

\* main.chat after process_query has returned `result` (lines 199-217)
chat_finish(req, result, path) ==
    /\ query_history' = Append(query_history,
            [query |-> req.message, sources_count |-> Len(result.sources)])
    /\ document_usage' = count_usage(document_usage, result.sources)
    /\ query_cache' = DictPut(query_cache,
                              get_query_hash(req.message, req.filters),
                              cache_entry(result))
    /\ last' = [req |-> req, path |-> path, resp |-> ChatResponse(result)]

\* result.get("structured_data") of a result that has none
NoStructuredData == [given |-> FALSE, data |-> <<>>]

\* the retrieval of StructuredExtractor._extract_*: the merged docs
extraction_docs(extraction_type) ==
    unique_by_text(search_all(extraction_queries(extraction_type)))

\* the handler is inside the generation call and holds the loop
Suspend(req, path, cid, docs, context, history, extraction_type) ==
    running' = [active |-> TRUE, req |-> req, path |-> path, conversation_id |-> cid,
                docs |-> docs, context |-> context, history |-> history,
                extraction_type |-> extraction_type]

\* history[:10], the first ten turns
history_head(history) == Slice(history, 0, 10)

\* history[-10:], the turns _generate_answer puts into the prompt
history_window(history) ==
    Slice(history, IF Len(history) > 10 THEN Len(history) - 10 ELSE 0, Len(history))

\* main.chat up to the generation call (or to its end, when none is made)
ChatStart(req) ==
    /\ ~running.active
    /\ req.kind = "chat"
    /\ LET query_hash == get_query_hash(req.message, req.filters)
       IN  \/ pipeline_calls < MaxQueries
           \/ /\ query_hash \in DOMAIN query_cache
              /\ is_cache_valid(query_cache[query_hash].timestamp)
    /\ LET query_hash == get_query_hash(req.message, req.filters)
       IN  IF query_hash \in DOMAIN query_cache
              /\ is_cache_valid(query_cache[query_hash].timestamp)
           THEN \* cache hit (lines 174-184)
                /\ last' = [req |-> req, path |-> "cache_hit",
                            resp |-> ChatResponse(
                                [answer |-> query_cache[query_hash].answer,
                                 sources |-> query_cache[query_hash].sources,
                                 conversation_id |-> None])]
                /\ UNCHANGED <<query_cache, query_history, document_usage,
                               conversations, running, pipeline_calls>>
           ELSE \* RAGPipeline.process_query
                LET fresh == req.conversation_id = None
                    cid == IF fresh THEN Uuid ELSE req.conversation_id
                    convs == IF fresh THEN DictPut(conversations, cid, <<>>)
                             ELSE conversations
                    retrieved_docs == search(req.message, 5)
                IN  /\ pipeline_calls' = pipeline_calls + 1
                    /\ conversations' = convs
                    /\ IF is_extraction_request(req.message)
                       THEN LET t == extraction_type_of(req.message)
                                docs == extraction_docs(t)
                            IN  /\ Suspend(req, "chat_extraction", cid, docs,
                                           build_extraction_context(docs), <<>>, t)
                                /\ UNCHANGED <<query_cache, query_history,
                                               document_usage, last>>
                       ELSE IF retrieved_docs = <<>>
                       THEN /\ chat_finish(req,
                                   [answer |-> NoMatchAnswer, sources |-> <<>>,
                                    conversation_id |-> cid,
                                    structured_data |-> NoStructuredData],
                                   "no_match")
                            /\ UNCHANGED running
                       ELSE LET stored == IF cid \in DOMAIN convs THEN convs[cid] ELSE <<>>
                                history == history_window(stored)
                            IN  /\ Suspend(req, "chat", cid, retrieved_docs,
                                           retrieved_docs, history, "")
                                /\ UNCHANGED <<query_cache, query_history,
                                               document_usage, last>>
    /\ UNCHANGED <<collection, documents_metadata, metadata_file, retrieval_cache,
                   now, ticks>>
    /\ UNCHANGED <<simple_vars, fn_vars>>

\* the two appends of process_query (lines 51-58)
append_turns(convs, cid, query, answer) ==
    [convs EXCEPT ![cid] = @ \o <<[role |-> "user", content |-> query],
                                  [role |-> "assistant", content |-> answer]>>]

\* the generation call of a chat query returns or raises, and the handler
\* runs to its end
ChatGenerationReturn(outcome) ==
    /\ running.active /\ running.path = "chat"
    /\ running' = NoRunning
    /\ LET answer == generate_answer(outcome)
           sources == format_sources(running.docs)
           cid == running.conversation_id
       IN  IF cid \notin DOMAIN conversations
           THEN \* KeyError at line 51, caught at main.py line 218
                /\ last' = [req |-> running.req, path |-> "failed",
                            resp |-> ServerError("KeyError")]
                /\ UNCHANGED <<conversations, query_cache, query_history,
                               document_usage>>
           ELSE /\ conversations' =
                       append_turns(conversations, cid, running.req.message, answer)
                /\ chat_finish(running.req,
                               [answer |-> answer, sources |-> sources,
                                conversation_id |-> cid,
                                structured_data |-> NoStructuredData],
                               "generated")
    /\ UNCHANGED <<collection, documents_metadata, metadata_file, retrieval_cache,
                   now, ticks, pipeline_calls>>
    /\ UNCHANGED <<simple_vars, fn_vars>>

\* the result of StructuredExtractor._extract_* once the call has ended
extraction_result(outcome) ==
    [data |-> extract_with_gpt(outcome), sources |-> extract_sources(running.docs)]

\* the generation call of an extraction returns or raises
ExtractionGenerationReturn(outcome) ==
    /\ running.active /\ running.path \in {"chat_extraction", "extract"}
    /\ running' = NoRunning
    /\ LET result == extraction_result(outcome)
       IN  IF running.path = "extract"
           THEN /\ last' = [req |-> running.req, path |-> "extract",
                            resp |-> [status |-> 200,
                                      extraction_type |-> running.extraction_type,
                                      data |-> result.data,
                                      sources |-> result.sources]]
                /\ UNCHANGED <<query_cache, query_history, document_usage>>
           ELSE chat_finish(running.req,
                    [answer |-> format_extraction_as_text(result.data,
                                                          running.extraction_type),
                     sources |-> result.sources,
                     conversation_id |-> running.conversation_id,
                     structured_data |-> [given |-> TRUE, data |-> result.data]],
                    "extraction")
    /\ UNCHANGED <<collection, documents_metadata, metadata_file, retrieval_cache,
                   conversations, now, ticks, pipeline_calls>>
    /\ UNCHANGED <<simple_vars, fn_vars>>

\* the response of main.list_documents
list_documents_response == [status |-> 200, documents |-> list_documents]

\* main.list_documents: it runs when the loop is free, and changes nothing
ListDocuments ==
    /\ ~running.active
    /\ UNCHANGED vars

\* the number of cache entries that is_cache_valid accepts
valid_cache_count ==
    Cardinality({h \in DOMAIN query_cache : is_cache_valid(query_cache[h].timestamp)})

\* the response of main.cache_stats
cache_stats_response ==
    [status |-> 200,
     total_cached_queries |-> Cardinality(DOMAIN query_cache),
     valid_cache_entries |-> valid_cache_count,
     cache_ttl_seconds |-> CACHE_TTL_SECONDS,
     retrieval_cache_size |-> Cardinality(DOMAIN retrieval_cache)]

\* cache statistics that drop the entries they count as expired
CacheStatsEvicting ==
    /\ ~running.active
    /\ query_cache' =
          [h \in {g \in DOMAIN query_cache :
                     is_cache_valid(query_cache[g].timestamp)} |-> query_cache[h]]
    /\ UNCHANGED <<collection, documents_metadata, metadata_file, retrieval_cache,
                   query_history, document_usage, conversations, now, ticks,
                   running, pipeline_calls, last>>
    /\ UNCHANGED <<simple_vars, fn_vars>>

\* main.cache_stats
CacheStats ==
    /\ ~running.active
    /\ UNCHANGED vars

\* the response of main.health_check
health_response ==
    [status |-> 200,
     vector_store |-> is_initialized,
     documents_count |-> Cardinality(list_documents),
     total_queries |-> Len(query_history),
     cache_size |-> Cardinality(DOMAIN query_cache),
     cache_hits_available |-> valid_cache_count]

\* main.health_check
Health ==
    /\ ~running.active
    /\ UNCHANGED vars

\* a clearing that removes only the entries that have expired
ClearCacheExpired ==
    /\ ~running.active
    /\ query_cache' =
          [h \in {g \in DOMAIN query_cache :
                     is_cache_valid(query_cache[g].timestamp)} |-> query_cache[h]]
    /\ retrieval_cache' = EmptyDict
    /\ UNCHANGED <<collection, documents_metadata, metadata_file, query_history,
                   document_usage, conversations, now, ticks, running,
                   pipeline_calls, last>>
    /\ UNCHANGED <<simple_vars, fn_vars>>

\* main.clear_cache
ClearCache ==
    /\ ~running.active
    /\ query_cache' = EmptyDict
    /\ retrieval_cache' = EmptyDict
    /\ UNCHANGED <<collection, documents_metadata, metadata_file, query_history,
                   document_usage, conversations, now, ticks, running,
                   pipeline_calls, last>>
    /\ UNCHANGED <<simple_vars, fn_vars>>

\* main.extract_structured_data up to the generation call; an unsupported
\* type raises ValueError in StructuredExtractor.extract
ExtractStart(req) ==
    /\ ~running.active
    /\ req.kind = "extract"
    /\ IF req.extraction_type \notin extraction_map
       THEN /\ last' = [req |-> req, path |-> "failed",
                        resp |-> ServerError("Unsupported extraction type")]
            /\ UNCHANGED running
       ELSE LET docs == extraction_docs(req.extraction_type)
            IN  /\ Suspend(req, "extract", None, docs, build_extraction_context(docs),
                           <<>>, req.extraction_type)
                /\ UNCHANGED last
    /\ UNCHANGED <<collection, documents_metadata, metadata_file, query_cache,
                   retrieval_cache, query_history, document_usage, conversations,
                   now, ticks, pipeline_calls>>
    /\ UNCHANGED <<simple_vars, fn_vars>>

\* main.upload_document with document_processor.process_document: its awaits
\* (reading and saving the upload) come before any change of shared state
UploadDocument(file) ==
    /\ ~running.active
    /\ LET doc_id == md5(file.filename)
           text_chunks == chroma_extract_pages(file.pages, doc_id, 1)
           meta == DictPut(documents_metadata, doc_id,
                           [filename |-> file.filename,
                            chunks_count |-> Len(text_chunks)])
       IN  IF file.corrupt
           THEN \* "Error processing PDF" raised, answered with status 500
                UNCHANGED <<collection, documents_metadata, metadata_file>>
           ELSE /\ collection' = index_chunks(text_chunks, doc_id, file.filename)
                /\ documents_metadata' = meta
                /\ metadata_file' = meta
    /\ UNCHANGED <<query_cache, retrieval_cache, query_history, document_usage,
                   conversations, now, ticks, running, pipeline_calls, last>>
    /\ UNCHANGED <<simple_vars, fn_vars>>

\* the process stops and starts again: module globals and the objects built
\* at import are new, the ChromaDB directory and the metadata file remain
Restart ==
    /\ documents_metadata' = metadata_file
    /\ query_cache' = EmptyDict
    /\ retrieval_cache' = EmptyDict
    /\ query_history' = <<>>
    /\ document_usage' = EmptyDict
    /\ conversations' = EmptyDict
    /\ running' = NoRunning
    /\ pipeline_calls' = 0
    /\ last' = NoLast
    /\ UNCHANGED <<collection, metadata_file, now, ticks>>
    /\ UNCHANGED <<simple_vars, fn_vars>>

ServiceInit ==
    /\ collection = <<>>
    /\ documents_metadata = EmptyDict
    /\ metadata_file = EmptyDict
    /\ query_cache = EmptyDict
    /\ retrieval_cache = EmptyDict
    /\ query_history = <<>>
    /\ document_usage = EmptyDict
    /\ conversations = EmptyDict
    /\ now = 0
    /\ ticks = 0
    /\ running = NoRunning
    /\ pipeline_calls = 0
    /\ last = NoLast

ServiceNext ==
    \/ Tick
    \/ \E req \in RequestInputs : ChatStart(req)
    \/ \E outcome \in ChatOutcomes : ChatGenerationReturn(outcome)
    \/ \E outcome \in ExtractionOutcomes : ExtractionGenerationReturn(outcome)
    \/ ListDocuments
    \/ CacheStats
    \/ Health
    \/ ClearCache
    \/ \E req \in RequestInputs : ExtractStart(req)
    \/ \E file \in ServiceFiles : UploadDocument(file)
    \/ Restart

\* no function has been called on its own
NoCall == [fn |-> "none"]

FnInit ==
    /\ call = NoCall
    /\ returned = <<>>

Init == SimpleInit /\ ServiceInit /\ FnInit

\* the service
Next == ServiceNext

Spec == Init /\ [][Next]_vars

\* the in-memory document processor on its own
NextSimple ==
    \/ SimpleNext
    \/ \E query \in SearchQueries, top_k \in SearchTopK : SimpleSearch(query, top_k)

SpecSimple == Init /\ [][NextSimple]_vars

(***************************************************************************)
(* Properties of the service (under Spec)                                  *)
(***************************************************************************)
\* the fingerprint of a chat request
fingerprint(req) == get_query_hash(req.message, req.filters)

\* the step is main.chat, from its start to the generation call or to its end
ChatStarts ==
    /\ ~running.active
    /\ \/ pipeline_calls' = pipeline_calls + 1
       \/ last' # last /\ last'.path = "cache_hit"

\* the request a ChatStarts step handles
started_request == IF running'.active THEN running'.req ELSE last'.req

\* C2: a chat request whose fingerprint has an entry stored at time t is
\* answered from the entry (its answer and sources, no call of the
\* pipeline) when now - t < 3600, and is a miss (the pipeline is called
\* again) when now - t >= 3600.
C2_CacheFreshness ==
    [][\A req \in RequestInputs :
          (/\ ChatStarts /\ req = started_request
           /\ fingerprint(req) \in DOMAIN query_cache
           /\ ChatStart(req)) =>
              LET entry == query_cache[fingerprint(req)]
                  t == fromisoformat(entry.timestamp)
              IN  /\ (now - t < 3600) =>
                        /\ pipeline_calls' = pipeline_calls
                        /\ last'.req = req
                        /\ last'.path = "cache_hit"
                        /\ last'.resp.answer = entry.answer
                        /\ last'.resp.sources = entry.sources
                  /\ (now - t >= 3600) =>
                        pipeline_calls' = pipeline_calls + 1]_vars

\* a request was answered from the cache, and a later request with the same
\* fingerprint is in the pipeline again, its entry being 3600 seconds old
C2_Witness ==
    /\ last.path = "cache_hit"
    /\ running.active /\ running.path = "chat"
    /\ fingerprint(running.req) = fingerprint(last.req)
    /\ fingerprint(running.req) \in DOMAIN query_cache
    /\ now - fromisoformat(query_cache[fingerprint(running.req)].timestamp) >= 3600
    /\ pipeline_calls = 2


\* the step ends a generation call that raised
GenerationFails ==
    /\ running.active
    /\ ~running'.active
    /\ \/ ChatGenerationReturn([raised |-> TRUE, text |-> "timeout"])
       \/ ExtractionGenerationReturn([raised |-> TRUE, text |-> <<"timeout">>])

\* C3: when the generation call of a query or of an extraction fails, the
\* caller is told of a failure: it does not get a normal result that
\* carries the error as an answer string or as an empty data array.
C3_GenerationFailureReported ==
    [][GenerationFails => last'.resp.status # 200]_vars

\* the request `req` of a process_query step names a conversation the
\* caller made up: it is given, and it is not stored
UnknownConversation(req) ==
    /\ req.kind = "chat"
    /\ req.conversation_id # None
    /\ req.conversation_id \notin DOMAIN conversations

\* the step ends process_query for the request `req`
ProcessQueryEnds(req) ==
    \/ /\ ~running.active /\ ~running'.active
       /\ pipeline_calls' = pipeline_calls + 1
       /\ req = last'.req
    \/ /\ running.active /\ running.path \in {"chat", "chat_extraction"}
       /\ ~running'.active /\ pipeline_calls' = pipeline_calls
       /\ req = running.req

\* C4: process_query with a conversation id of the caller that is not stored
\* creates the conversation and appends the user turn and the assistant
\* turn to it, and the query does not fail.
C4_UnknownConversationCreated ==
    [][\A req \in RequestInputs :
          (ProcessQueryEnds(req) /\ UnknownConversation(req)) =>
              /\ last'.resp.status = 200
              /\ req.conversation_id \in DOMAIN conversations'
              /\ conversations'[req.conversation_id] =
                    <<[role |-> "user", content |-> req.message],
                      [role |-> "assistant", content |-> last'.resp.answer]>>]_vars

\* the step answers a chat request with an answer
ChatAnswered ==
    /\ last' # last
    /\ last'.req.kind = "chat"
    /\ last'.resp.status = 200

\* the turns of the conversation `cid` end with the query and its answer
EndsWithTurns(convs, cid, query, answer) ==
    /\ cid \in DOMAIN convs
    /\ Len(convs[cid]) >= 2
    /\ convs[cid][Len(convs[cid]) - 1] = [role |-> "user", content |-> query]
    /\ convs[cid][Len(convs[cid])] = [role |-> "assistant", content |-> answer]

\* C5: every chat query that is answered leaves the answer in the cache
\* under the fingerprint of the query and, after the user's query, at the
\* end of the history of its conversation, on every path of the handler.
C5_AnswerPersisted ==
    [][ChatAnswered =>
          /\ fingerprint(last'.req) \in DOMAIN query_cache'
          /\ query_cache'[fingerprint(last'.req)].answer = last'.resp.answer
          /\ \E cid \in {last'.req.conversation_id, last'.resp.conversation_id} :
                EndsWithTurns(conversations', cid, last'.req.message,
                              last'.resp.answer)]_vars

\* C7: while a generation call is in progress, a document listing, the
\* cache statistics and the health check can be served.
C7_ListingServedDuringGeneration ==
    running.active =>
        /\ ENABLED ListDocuments
        /\ ENABLED CacheStats
        /\ ENABLED Health

\* the cache entries the step stores or replaces
StoredEntries ==
    {h \in DOMAIN query_cache' :
        h \notin DOMAIN query_cache \/ query_cache'[h] # query_cache[h]}

C9_EmptyContextEmptyData ==
    [][\A outcome \in ExtractionOutcomes :
          (/\ running.active /\ running.path = "extract"
           /\ running.context = <<>>
           /\ ExtractionGenerationReturn(outcome)) =>
              /\ last'.resp.status = 200
              /\ last'.resp.data = <<>>]_vars

\* C10: with no chunks in the store a search returns the empty list, and a
\* chat query that is not an extraction request and reaches process_query
\* is answered, without a generation call, by the insufficient-information
\* answer with no sources.
C10_EmptyStoreNoMatch ==
    [][\A req \in RequestInputs :
          (/\ collection = <<>>
           /\ ChatStarts /\ req = started_request
           /\ pipeline_calls' = pipeline_calls + 1
           /\ ~is_extraction_request(req.message)) =>
              /\ search(req.message, 5) = <<>>
              /\ ~running'.active
              /\ last'.req = req
              /\ last'.resp.status = 200
              /\ last'.resp.answer = NoMatchAnswer
              /\ last'.resp.sources = <<>>]_vars

\* a query on the empty store has been answered on the no-match path
C10_Witness ==
    /\ collection = <<>>
    /\ ~running.active
    /\ last.path = "no_match"
    /\ last.resp.answer = NoMatchAnswer
    /\ last.resp.sources = <<>>
    /\ search(last.req.message, 5) = <<>>

\* the program state that a request handler can change
handler_state ==
    <<collection, documents_metadata, metadata_file, query_cache, retrieval_cache,
      query_history, document_usage, conversations, pipeline_calls>>

EntryRemoved == \E h \in DOMAIN query_cache : h \notin DOMAIN query_cache'

\* C12: clear_cache leaves query_cache and retrieval_cache empty in one
\* step, so no step removes only a part of the entries, and a chat request
\* that finds the cache empty is a miss: it calls the pipeline.
C12_ClearCacheEmptiesAll ==
    [][/\ ClearCache => (query_cache' = EmptyDict /\ retrieval_cache' = EmptyDict)
       /\ EntryRemoved => (DOMAIN query_cache' = {} /\ DOMAIN retrieval_cache' = {})
       /\ \A req \in RequestInputs :
             (/\ DOMAIN query_cache = {}
              /\ ChatStarts /\ req = started_request
              /\ ChatStart(req)) =>
                 pipeline_calls' = pipeline_calls + 1]_vars

\* an answer was stored, the cache has been cleared, and with no time passed
\* a request with the same fingerprint is in the pipeline again
C12_Witness ==
    /\ ticks = 0
    /\ Len(query_history) = 1
    /\ DOMAIN query_cache = {}
    /\ running.active /\ running.path = "chat"
    /\ fingerprint(running.req) = get_query_hash(query_history[1].query, NoFilters)

\* C13: a read that finds an expired entry (the lookup of chat, cache_stats,
\* health) leaves it stored: an entry leaves the query cache only through
\* clear_cache, or with the process when it is restarted.
C13_ExpiredEntryNotEvicted ==
    [][\A h \in DOMAIN query_cache :
          h \in DOMAIN query_cache' \/ ClearCache \/ Restart]_vars

\* a chat request has found its entry expired and is in the pipeline, and
\* the expired entry is still stored
C13_Witness ==
    /\ running.active /\ running.path = "chat"
    /\ fingerprint(running.req) \in DOMAIN query_cache
    /\ ~is_cache_valid(query_cache[fingerprint(running.req)].timestamp)
    /\ Cardinality(DOMAIN query_cache) = 1
    /\ valid_cache_count = 0

(***************************************************************************)
(* Functions called on their own (under SpecFn)                            *)
(***************************************************************************)
\* the same letter in upper case
upper_char(c) ==
    IF \E i \in 1..Len(LowerCase) : LowerCase[i] = c
    THEN UpperCase[CHOOSE i \in 1..Len(LowerCase) : LowerCase[i] = c]
    ELSE c

\* query texts in lower case without outer whitespace
BaseQueries ==
    { <<"f", "i", "r", "e">>, <<"d", "o", "o", "r", " ", "s">>,
      \* a query that ends with the text of a JSON object
      <<"f", "i", "r", "e", "{", "\"", "d", "o", "c", "\"", ":", " ", "\"", "a", "\"", "}">> }

\* the ways a text is written: the case of its letters and the whitespace
\* before and after it
Casings == {"lower", "upper", "mixed"}
LeftPads == {<<>>, <<" ">>, <<"\t", " ">>}
RightPads == {<<>>, <<" ">>, <<"\n">>}

\* the text `base` written in one of these ways
written(base, casing, left, right) ==
    left \o [i \in 1..Len(base) |->
                IF casing = "upper" \/ (casing = "mixed" /\ i % 2 = 1)
                THEN upper_char(base[i]) ELSE base[i]]
         \o right

\* filter sets: sets of <<key, value>> pairs with distinct keys
FilterSets ==
    { {},
      {<<<<"d", "o", "c">>, <<"a">>>>},
      {<<<<"p", "a", "g", "e">>, <<"1">>>>, <<<<"d", "o", "c">>, <<"a">>>>},
      {<<<<"p", "a", "g", "e">>, <<"1">>>>, <<<<"d", "o", "c">>, <<"a">>>>,
       <<<<"c", "o", "n", "f">>, <<"h", "i">>>>} }

\* the dicts that hold the pairs of a filter set, one for every order in
\* which the keys can have been inserted; no pairs is also what None holds
filter_dicts(pairs) ==
    {[given |-> TRUE, items |-> order] :
        order \in {o \in [1..Cardinality(pairs) -> pairs] :
                      \A i, j \in 1..Cardinality(pairs) : o[i] = o[j] => i = j}}
    \cup (IF pairs = {} THEN {NoFilters} ELSE {})

\* get_query_hash called on a query and a filter dict
CallGetQueryHash ==
    /\ call = NoCall
    /\ \E base \in BaseQueries, casing \in Casings, left \in LeftPads,
          right \in RightPads, pairs \in FilterSets :
          \E filters \in filter_dicts(pairs) :
             /\ call' = [fn |-> "get_query_hash",
                         query |-> written(base, casing, left, right),
                         filters |-> filters, base |-> base, pairs |-> pairs]
             /\ returned' = get_query_hash(written(base, casing, left, right), filters)
    /\ UNCHANGED <<simple_vars, service_vars>>

\* turns stored in the conversation of which the window is taken
MaxTurns == 12

\* the i-th turn of a conversation: the roles alternate, the contents differ
turn(i) ==
    [role |-> IF i % 2 = 1 THEN "user" ELSE "assistant", content |-> <<ToString(i)>>]

\* _generate_answer takes the window of a stored history of n turns; the
\* slice is a new list, the stored list is the one it was
CallHistoryWindow ==
    /\ call = NoCall
    /\ \E n \in 0..MaxTurns :
          LET history == [i \in 1..n |-> turn(i)]
          IN  /\ call' = [fn |-> "history_window", history |-> history]
              /\ returned' = [window |-> history_window(history),
                              stored |-> history]
    /\ UNCHANGED <<simple_vars, service_vars>>

\* docs in the list of which the sources are taken
MaxDocs == 12

\* a list of n docs as retrieval returns them: the pages repeat after
\* `period` docs, and the filenames are one name or two names in turn
docs_of(n, period, names) ==
    [i \in 1..n |->
        [text |-> <<ToString(i)>>,
         metadata |-> [filename |-> names[((i - 1) % Len(names)) + 1],
                       page |-> ((i - 1) % period) + 1],
         distance |-> i]]

\* _extract_sources called on a list of docs
CallExtractSources ==
    /\ call = NoCall
    /\ \E n \in 0..MaxDocs, period \in 1..MaxDocs,
          names \in {<<"a">>, <<"a", "a_1">>} :
          /\ call' = [fn |-> "extract_sources", docs |-> docs_of(n, period, names)]
          /\ returned' = extract_sources(docs_of(n, period, names))
    /\ UNCHANGED <<simple_vars, service_vars>>

\* lengths of the texts given to the chunker, and its chunk sizes
MaxTextLen == 8
MaxChunkSize == 4

TextKinds == {"solid", "blank", "mixed"}

\* a text of n characters: letters, whitespace, or both in turn
text_of(kind, n) ==
    [i \in 1..n |->
        IF kind = "solid" THEN "x"
        ELSE IF kind = "blank" THEN (IF i % 2 = 1 THEN " " ELSE "\n")
        ELSE (IF i % 3 = 1 THEN " " ELSE "x")]

\* _chunk_text called with a chunk size and an overlap below it
CallChunkText ==
    /\ call = NoCall
    /\ \E kind \in TextKinds, n \in 0..MaxTextLen, chunk_size \in 1..MaxChunkSize :
          \E overlap \in 0..(chunk_size - 1) :
             /\ call' = [fn |-> "chunk_text", text |-> text_of(kind, n),
                         chunk_size |-> chunk_size, overlap |-> overlap]
             /\ returned' = chunk_text(text_of(kind, n), chunk_size, overlap)
    /\ UNCHANGED <<simple_vars, service_vars>>

\* a page of LongLen characters: 800 letters (chunk_size - overlap), then
\* line feeds
LongTextNewline == [i \in 1..LongLen |-> IF i > 800 THEN "\n" ELSE "d"]

\* the body of the page loop of _extract_and_chunk_pdf on the text of a page
CallPageChunks ==
    /\ call = NoCall
    /\ \E text \in {text_of(kind, n) : kind \in TextKinds, n \in 0..MaxTextLen}
                    \cup {LongText, LongTextNewline} :
          /\ call' = [fn |-> "page_chunks", text |-> text]
          /\ returned' = page_chunk_dicts(text, md5("a.pdf"), "a.pdf", 1)
    /\ UNCHANGED <<simple_vars, service_vars>>

\* what the generation service does in the call of _extract_with_gpt
ReplyOutcomes ==
    {[raised |-> FALSE, text |-> t] :
        t \in {RespEmptyArray, RespOneRecord, RespDoorsObject, RespOtherObject,
               RespNumber, RespProseArray, RespProseBroken, RespProse,
               RespScheduleObject}}
    \cup {[raised |-> TRUE, text |-> <<"timeout">>]}

\* _extract_with_gpt called with a prompt, the service doing one of the above
CallExtractWithGpt ==
    /\ call = NoCall
    /\ \E outcome \in ReplyOutcomes :
          /\ call' = [fn |-> "extract_with_gpt", outcome |-> outcome]
          /\ returned' = extract_with_gpt(outcome)
    /\ UNCHANGED <<simple_vars, service_vars>>

\* chat queries given to the routing: one for every keyword family, one
\* with an equipment keyword and the word "room", one with a room keyword and
\* the word "doors", and one with no keyword
RoutingQueries ==
    {
      <<"D", "o", "o", "r", " ", "S", "c", "h", "e", "d", "u", "l", "e">>,
      <<"R", "o", "o", "m", " ", "s", "u", "m", "m", "a", "r", "y">>,
      <<"l", "i", "s", "t", " ", "a", "l", "l", " ", "r", "o", "o", "m",
        "s">>,
      <<"E", "q", "u", "i", "p", "m", "e", "n", "t", " ", "L", "i", "s",
        "t">>,
      <<"M", "E", "P", " ", "e", "q", "u", "i", "p", "m", "e", "n", "t">>,
      <<"e", "q", "u", "i", "p", "m", "e", "n", "t", " ", "l", "i", "s",
        "t", " ", "b", "o", "i", "l", "e", "r", " ", "r", "o", "o", "m">>,
      <<"l", "i", "s", "t", " ", "a", "l", "l", " ", "r", "o", "o", "m",
        "s", " ", "a", "n", "d", " ", "d", "o", "o", "r", "s">>,
      <<"f", "i", "r", "e", " ", "r", "a", "t", "i", "n", "g">> }

\* process_query decides whether the query is an extraction request, and
\* _handle_extraction_request chooses the extraction type
CallExtractionRouting ==
    /\ call = NoCall
    /\ \E query \in RoutingQueries :
          /\ call' = [fn |-> "extraction_routing", query |-> query]
          /\ returned' = [routed |-> is_extraction_request(query),
                          extraction_type |-> IF is_extraction_request(query)
                                              THEN extraction_type_of(query)
                                              ELSE ""]
    /\ UNCHANGED <<simple_vars, service_vars>>

\* docs that the queries of an extraction return together
MaxMerged == 17

\* n docs of one file, `per_page` chunks of every page one after the other
docs_paged(n, per_page) ==
    [i \in 1..n |->
        [text |-> <<ToString(i)>>,
         metadata |-> [filename |-> "a", page |-> ((i - 1) \div per_page) + 1],
         distance |-> i]]

\* the end of StructuredExtractor._extract_door_schedule: the docs of the
\* queries are merged by text, the first 15 go into the prompt, and the
\* sources are taken (a later query returns `again` docs a second time)
CallExtractionSources ==
    /\ call = NoCall
    /\ \E n \in 0..MaxMerged, per_page \in {1, 2, 15}, again \in {0, 2} :
          LET all_docs == docs_paged(n, per_page)
                            \o docs_paged(IF again < n THEN again ELSE n, per_page)
              unique_docs == unique_by_text(all_docs)
          IN  /\ call' = [fn |-> "extraction_sources", all_docs |-> all_docs]
              /\ returned' = [context |-> build_extraction_context(unique_docs),
                              sources |-> extract_sources(unique_docs)]
    /\ UNCHANGED <<simple_vars, service_vars>>

FnNext ==
    \/ CallExtractionSources
    \/ CallExtractionRouting
    \/ CallExtractWithGpt
    \/ CallGetQueryHash
    \/ CallHistoryWindow
    \/ CallExtractSources
    \/ CallChunkText
    \/ CallPageChunks

\* the functions of the program called on their own
SpecFn == Init /\ [][FnNext]_vars

\* C14: get_query_hash gives one key to all requests whose queries differ
\* only in the case of letters and in leading and trailing whitespace and
\* whose filters hold the same pairs, whatever the order of the keys.
C14_FingerprintNormalises ==
    call.fn = "get_query_hash" =>
        \A casing \in Casings, left \in LeftPads, right \in RightPads :
            \A filters \in filter_dicts(call.pairs) :
                get_query_hash(written(call.base, casing, left, right), filters)
                    = returned

\* the key of a query written in upper case between whitespace, with three
\* filters whose keys are not in sorted order
C14_Witness ==
    /\ call.fn = "get_query_hash"
    /\ call.query = written(call.base, "upper", <<"\t", " ">>, <<"\n">>)
    /\ Cardinality(call.pairs) = 3
    /\ call.filters.items # sorted_items(call.filters.items)
    /\ returned = get_query_hash(call.base,
                                 [given |-> TRUE,
                                  items |-> sorted_items(call.filters.items)])

\* C15: the history given to the generation service is the last min(10, n)
\* of the n stored turns, in their order, and the stored turns stay as they
\* were.
C15_HistoryWindow ==
    call.fn = "history_window" =>
        LET n == Len(call.history)
            k == IF n < 10 THEN n ELSE 10
        IN  /\ Len(returned.window) = k
            /\ \A i \in 1..k : returned.window[i] = call.history[n - k + i]
            /\ returned.stored = call.history

\* the window of a history of twelve turns starts at the third turn
C15_Witness ==
    /\ call.fn = "history_window"
    /\ Len(call.history) = 12
    /\ Len(returned.window) = 10
    /\ returned.window[1] = turn(3)
    /\ returned.window[10] = turn(12)

\* the step ends, with an answer, the request that is in its generation call
PipelineAnswers ==
    /\ running.active
    /\ ~running'.active
    /\ last'.req = running.req
    /\ last'.resp.status = 200

\* C16: every source of a request that the pipeline or the extractor
\* answers carries the filename and the page of a chunk that retrieval
\* returned for that request, and there is a source whenever retrieval
\* returned a chunk.
C16_SourcesFromRetrieval ==
    [][PipelineAnswers =>
          /\ \A i \in 1..Len(last'.resp.sources) :
                \E j \in 1..Len(running.docs) :
                   /\ running.docs[j].metadata.filename
                         = last'.resp.sources[i].filename
                   /\ running.docs[j].metadata.page = last'.resp.sources[i].page
          /\ running.docs # <<>> => last'.resp.sources # <<>>]_vars

\* a generated answer with the sources of two pages of the indexed document
C16_Witness ==
    /\ last.path = "generated"
    /\ Len(last.resp.sources) = 2
    /\ last.resp.sources[1].page # last.resp.sources[2].page
    /\ \A i \in 1..2 :
          \E j \in 1..Len(collection) :
             /\ collection[j].metadata.filename = last.resp.sources[i].filename
             /\ collection[j].metadata.page = last.resp.sources[i].page

\* C17: the sources of a structured extraction are at most 10, and no two
\* of them have the same filename and page.
C17_SourcesCappedAndDistinct ==
    call.fn = "extract_sources" =>
        /\ Len(returned) <= 10
        /\ \A i, j \in 1..Len(returned) :
              (/\ returned[i].filename = returned[j].filename
               /\ returned[i].page = returned[j].page) => i = j

\* twelve docs of eleven pages, the last a second doc of page 1: the
\* sources are those of the first ten pages
C17_Witness ==
    /\ call.fn = "extract_sources"
    /\ Len(call.docs) = 12
    /\ \A i \in 1..12 : call.docs[i].metadata.filename = "a"
    /\ \A i \in 1..11 : call.docs[i].metadata.page = i
    /\ call.docs[12].metadata.page = 1
    /\ Len(returned) = 10
    /\ returned[10].page = 10

\* C18 (as amended): for every text of length L > 0 and every chunk size C
\* and overlap O with 0 <= O < C, _chunk_text returns ceil(L / (C - O))
\* chunks: one for every start 0, C - O, 2(C - O), ... below L.
C18_ChunkCount ==
    (call.fn = "chunk_text" /\ Len(call.text) > 0) =>
        LET step == call.chunk_size - call.overlap
        IN  Len(returned) = (Len(call.text) + step - 1) \div step

\* C18 as stated: the number of chunks is ceil((L - O) / (C - O))
C18_Original ==
    (call.fn = "chunk_text" /\ Len(call.text) > 0) =>
        LET step == call.chunk_size - call.overlap
        IN  Len(returned) = 0 - ((call.overlap - Len(call.text)) \div step)

\* a text of 8 characters in chunks of 4 with overlap 2: the starts are
\* 0, 2, 4 and 6, and ceil((8 - 2) / 2) is 3
C18_Witness ==
    /\ call.fn = "chunk_text"
    /\ Len(call.text) = 8
    /\ call.chunk_size = 4
    /\ call.overlap = 2
    /\ Len(returned) = 4

C20_RankedByScoreThenInsertion ==
    call.fn = "search_documents" =>
        LET ranked(scores) ==
                LET matches == {i \in 1..Len(scores) : scores[i] > 0}
                    place(i) == 1 + Cardinality({j \in matches :
                                                    \/ scores[j] > scores[i]
                                                    \/ (scores[j] = scores[i] /\ j < i)})
                IN  /\ Len(returned) <= call.top_k
                    /\ \A k \in 1..(Len(returned) - 1) :
                          returned[k].relevance_score >= returned[k + 1].relevance_score
                    /\ Len(returned) = (IF Cardinality(matches) < call.top_k
                                        THEN Cardinality(matches) ELSE call.top_k)
                    /\ \A i \in matches :
                          place(i) <= call.top_k =>
                              /\ returned[place(i)].chunk = call.chunks[i]
                              /\ returned[place(i)].relevance_score = scores[i]
        IN  ranked(<<>> \o [i \in 1..Len(call.chunks) |->
                               word_score(split(lower(call.query)),
                                          lower(call.chunks[i].content))])

\* a search with top_k 2 on a store where more than two chunks match has
\* returned two different chunks of the same score
C20_Witness ==
    /\ call.fn = "search_documents"
    /\ call.top_k = 2
    /\ Len(returned) = 2
    /\ returned[1].relevance_score = returned[2].relevance_score
    /\ returned[1].chunk # returned[2].chunk
    /\ Cardinality({i \in 1..Len(call.chunks) :
                       word_score(split(lower(call.query)),
                                  lower(call.chunks[i].content)) > 0}) > 2

\* C21: among results of search_documents that have equal score, a result
\* with a smaller chunk_index is ranked before one with a larger
\* chunk_index, also when the tied chunks are of different pages or
\* documents.
C21_TiesByChunkIndex ==
    call.fn = "search_documents" =>
        \A k \in 1..(Len(returned) - 1) :
            returned[k].relevance_score = returned[k + 1].relevance_score =>
                returned[k].chunk.chunk_index <= returned[k + 1].chunk.chunk_index

\* C22: search_documents returns a chunk only if a query term is one of the
\* case-folded tokens of the chunk, and the score of the chunk is the sum,
\* over the query terms among its tokens, of the number of tokens equal to
\* the term.
C22_TermOverlap ==
    call.fn = "search_documents" =>
        \A k \in 1..Len(returned) :
            LET terms == split(lower(call.query))
                tokens == split(lower(returned[k].chunk.content))
                frequency(t) == Cardinality({n \in 1..Len(tokens) : tokens[n] = terms[t]})
                present == {t \in 1..Len(terms) : frequency(t) > 0}
                sum[S \in SUBSET (1..Len(terms))] ==
                    IF S = {} THEN 0
                    ELSE LET t == CHOOSE x \in S : TRUE
                         IN  frequency(t) + sum[S \ {t}]
            IN  /\ present # {}
                /\ returned[k].relevance_score = sum[present]

C24_ParsingPolicy ==
    call.fn = "extract_with_gpt" =>
        LET text == call.outcome.text
            inner == regex_array(text)
        IN  /\ returned \in Seq({"D1", "D2"})
            /\ call.outcome.raised => returned = <<>>
            /\ (~call.outcome.raised /\ json_valid(text)) =>
                  returned = (IF \/ json_loads(text).type = "array"
                                 \/ /\ json_loads(text).type = "object"
                                    /\ json_loads(text).key \in known_keys
                              THEN json_loads(text).items
                              ELSE <<>>)
            /\ (~call.outcome.raised /\ ~json_valid(text)) =>
                  returned = (IF inner.found /\ json_valid(inner.text)
                              THEN json_loads(inner.text).items
                              ELSE <<>>)

\* C24 as stated: whenever the reply is not an array nor an object with an
\* array under a known key, the substring between the first '[' and the
\* last ']' is tried
C24_Original ==
    (call.fn = "extract_with_gpt" /\ ~call.outcome.raised) =>
        LET text == call.outcome.text
            inner == regex_array(text)
            direct == /\ json_valid(text)
                      /\ \/ json_loads(text).type = "array"
                         \/ /\ json_loads(text).type = "object"
                            /\ json_loads(text).key \in known_keys
        IN  returned = (IF direct THEN json_loads(text).items
                        ELSE IF inner.found /\ json_valid(inner.text)
                        THEN json_loads(inner.text).items
                        ELSE <<>>)

\* a reply of prose around an array has given the array
C24_Witness ==
    /\ call.fn = "extract_with_gpt"
    /\ call.outcome.text = RespProseArray
    /\ returned = <<"D1">>

\* C25: the answer returned for a query in one conversation never depends on
\* the turns stored in a different conversation.  The generation service
\* answers from the prompt, which holds the turns of the conversation that
\* asks; so in every run an answer that was generated and is delivered to a
\* request of a stored conversation is an answer generated in that
\* conversation, which holds it as an assistant turn.
C25_AnswerFromOwnConversation ==
    [][(/\ last' # last
        /\ last'.req.kind = "chat"
        /\ last'.resp.status = 200
        /\ last'.req.conversation_id \in DOMAIN conversations'
        /\ last'.resp.answer # NoMatchAnswer) =>
            \E i \in 1..Len(conversations'[last'.req.conversation_id]) :
                conversations'[last'.req.conversation_id][i]
                    = [role |-> "assistant", content |-> last'.resp.answer]]_vars

\* C26: after a document has been ingested, no chat query is answered from
\* a cache entry computed before that ingestion: a cache hit returns what
\* was computed against the current index content, so its sources are the
\* sources of the retrieval for the query on the collection as it is.
C26_CacheHitOnCurrentIndex ==
    [][(/\ last' # last
        /\ last'.path = "cache_hit"
        /\ ~is_extraction_request(last'.req.message)) =>
            last'.resp.sources = format_sources(search(last'.req.message, 5))]_vars

\* C27: two requests share a cache key only if their lower-cased, trimmed
\* query texts are equal and their filter sets are equal: the string that
\* get_query_hash hashes for one (query, filters) pair is never the string
\* hashed for a different pair.
C27_KeyInjective ==
    call.fn = "get_query_hash" =>
        \A base \in BaseQueries, pairs \in FilterSets :
            \A filters \in filter_dicts(pairs) :
                get_query_hash(base, filters) = returned =>
                    /\ base = strip(lower(call.query))
                    /\ pairs = {call.filters.items[i] :
                                   i \in 1..Len(call.filters.items)}

\* C28: no chunk stored by ingestion is the empty string: for every page
\* whose text holds a non-whitespace character, every chunk made of it by
\* _chunk_text (chunk size 1000, overlap 200) holds a character.
C28_NoEmptyChunk ==
    (/\ call.fn = "page_chunks"
     /\ \E i \in 1..Len(call.text) : call.text[i] \notin Whitespace) =>
        \A k \in 1..Len(returned) : returned[k].content # <<>>

\* C29: when a chat query is routed to structured extraction, the schema
\* selected matches the keyword that caused the routing: a query that
\* matches only equipment keywords selects equipment_list, one that matches
\* only room keywords selects room_summary, and one that matches only door
\* keywords selects door_schedule.
C29_SchemaMatchesKeyword ==
    (call.fn = "extraction_routing" /\ returned.routed) =>
        LET matches(family) ==
                \E k \in family : Contains(lower(call.query), extraction_keywords[k])
            door == matches({1, 2})
            room == matches({3, 4})
            equipment == matches({5, 6})
        IN  /\ (equipment /\ ~room /\ ~door) => returned.extraction_type = "equipment_list"
            /\ (room /\ ~door /\ ~equipment) => returned.extraction_type = "room_summary"
            /\ (door /\ ~room /\ ~equipment) => returned.extraction_type = "door_schedule"

\* C30: every source returned by a structured extraction refers to a chunk
\* that was in the context given to the generation service, i.e. to one of
\* the first 15 merged matches after deduplication by chunk text.
C30_SourcesWithinContext ==
    call.fn = "extraction_sources" =>
        \A i \in 1..Len(returned.sources) :
            \E j \in 1..Len(returned.context) :
                /\ returned.context[j].metadata.filename = returned.sources[i].filename
                /\ returned.context[j].metadata.page = returned.sources[i].page

====
